---- MODULE Spec2Model ----
(***************************************************************************)
(* State-machine model of src/src/App.tsx: the React state of App, its     *)
(* event handlers, and the HTTP requests they leave in flight.  Each       *)
(* synchronous run of a handler (from an event or a promise continuation   *)
(* up to its next await) is one action.  The backing service is the        *)
(* environment: it answers every request at a moment of its own choosing,  *)
(* and responses are delivered in any order.                               *)
(***************************************************************************)
EXTENDS Integers, Sequences, FiniteSets, TLC

\* ------------------------------------------------------------------ bounds
\* Number of user-interface events explored in one run of the page.
MaxUserEvents == 4

\* ------------------------------------------------------------ basic values
\* `T | null` is modelled as a sequence of length at most one.
Null == <<>>
Some(x) == <<x>>

ViewType == {"front", "back", "left", "right"}
\* The image files the user may drop on a slot.
Files == {"img"}
\* The texts the user may type into the name fields.
ModelNames == {"", "chair"}
EditNames == {"renamed"}
EditDescriptions == {"notes"}

\* Strings whose characters matter (URLs) are sequences of characters.
HTTP == <<"h", "t", "t", "p">>
PROXY_PATH == <<"/", "a", "p", "i", "/", "p", "r", "o", "x", "y", "-", "g", "l", "b", "?", "u", "r", "l", "=">>
API_BASE == <<>>

\* encodeURIComponent on the characters that occur in the modelled URLs.
EncodeChar(c) ==
    CASE c = ":" -> <<"%", "3", "A">>
      [] c = "/" -> <<"%", "2", "F">>
      [] c = "?" -> <<"%", "3", "F">>
      [] c = "=" -> <<"%", "3", "D">>
      [] OTHER   -> <<c>>

RECURSIVE encodeURIComponent(_)
encodeURIComponent(s) ==
    IF s = <<>> THEN <<>> ELSE EncodeChar(Head(s)) \o encodeURIComponent(Tail(s))

startsWith(s, p) == Len(s) >= Len(p) /\ SubSeq(s, 1, Len(p)) = p

\* getProxyUrlAt without encodeURIComponent.
getProxyUrlAtUnencoded(base, url) ==
    IF url = <<>> THEN Null
    ELSE IF startsWith(url, HTTP)
         THEN Some(base \o PROXY_PATH \o url)
         ELSE Some(url)

\* getProxyUrl in a build whose API_BASE is base.
getProxyUrlAt(base, url) ==
    IF url = <<>> THEN Null
    ELSE IF startsWith(url, HTTP)
         THEN Some(base \o PROXY_PATH \o encodeURIComponent(url))
         ELSE Some(url)

getProxyUrl(url) == getProxyUrlAt(API_BASE, url)

\* The values VITE_API_URL is built with: unset, or the address of the service.
ApiBases == {<<>>, <<"h", "t", "t", "p", "s", ":", "/", "/", "a", "p", "i">>}

\* Asset addresses a conversion result can carry: a leading word, a separator
\* and a remainder, each possibly empty.
UrlWords == {<<>>, <<"h", "t", "t", "p">>, <<"h", "t", "t", "p", "s">>, <<"H", "T", "T", "P">>, <<"f", "t", "p">>, <<"h", "t", "t", "p", "d", "o", "c", "s">>}
UrlSeparators == {<<>>, <<":", "/", "/">>, <<"/">>, <<":">>}
UrlRemainders == {<<>>, <<"t", "/", "1">>, <<"m", ".", "g", "l", "b">>, <<"a", "?", "b", "=", "c">>}
UrlInputs == {w \o p \o r : w \in UrlWords, p \in UrlSeparators, r \in UrlRemainders}

\* The address of the asset the conversion service generated; n = 0 is an
\* asset that was not saved as a model.
AssetUrl(n) == HTTP \o <<":", "/", "/", "t", "/", ToString(n)>>

SavedModel(id, name, description) ==
    [id |-> id, name |-> name, description |-> description, model_url |-> AssetUrl(id)]

ConversionResult(model_id) ==
    [model_id |-> model_id,
     model_url |-> AssetUrl(IF model_id = Null THEN 0 ELSE model_id[1])]

\* The models the backing service already holds when the page loads.
InitialTable == <<SavedModel(1, "model", Null), SavedModel(2, "model", Null)>>

\* ---------------------------------------------------------------- messages
FrontRequiredMessage == "Front view image is required"
ConversionFailedMessage == "Conversion failed"
\* TypeError messages of a rejected fetch, by browser.
NetworkErrorMessages == {"Failed to fetch"}
\* SyntaxError messages of response.json() on a body that is not JSON.
JsonSyntaxErrorMessages == {"Unexpected token < in JSON at position 0"}

ProcessingMessage(viewCount) == <<"Processing", viewCount, "view(s) with Tripo3D (30-90 seconds)...">>
NoProgress == <<>>

\* Bodies of a non-2xx answer of the convert endpoint.
ErrorBodies ==
    {[json |-> TRUE, detail |-> Some("quota exceeded")],
     [json |-> TRUE, detail |-> Some("")],
     [json |-> TRUE, detail |-> Null],
     [json |-> FALSE, detail |-> Null]}

\* ------------------------------------------------------------------- state
VARIABLES
    activeTab, viewImages, modelName, isConverting, conversionResult, error,
    progress, savedModels, selectedModel, editingModel, editName, editDescription,
    models,        \* the backing service's table, in the order it lists it
    nextId,        \* the identifier the service gives the next saved model
    convertReqs,   \* POST /api/convert-multiview requests in flight
    listReqs,      \* GET /api/models requests in flight
    mutReqs,       \* PUT and DELETE /api/models/{id} requests in flight
    userEvents,    \* number of user-interface events so far
    lastEvent      \* history: the handler (or continuation) that ran last

slotVars == <<viewImages, modelName>>
jobVars == <<isConverting, conversionResult, error, progress>>
galleryVars == <<savedModels, selectedModel>>
editVars == <<editingModel, editName, editDescription>>
serverVars == <<models, nextId>>
vars == <<activeTab, slotVars, jobVars, galleryVars, editVars, serverVars,
          convertReqs, listReqs, mutReqs, userEvents, lastEvent>>

RemoveAt(s, i) == SubSeq(s, 1, i - 1) \o SubSeq(s, i + 1, Len(s))

Event(op, arg) == <<op, arg>>

\* fetchModels up to its first await: one more GET in flight.
fetchModels(reqs) == Append(reqs, [resp |-> Null])

\* displayModelUrl with the selected model taking precedence over the result.
displayModelUrlSelectedFirst ==
    IF selectedModel # Null /\ selectedModel[1].model_url # <<>>
    THEN getProxyUrl(selectedModel[1].model_url)
    ELSE IF conversionResult # Null /\ conversionResult[1].model_url # <<>>
         THEN getProxyUrl(conversionResult[1].model_url)
         ELSE Null

displayModelUrl ==
    IF conversionResult # Null /\ conversionResult[1].model_url # <<>>
    THEN getProxyUrl(conversionResult[1].model_url)
    ELSE IF selectedModel # Null /\ selectedModel[1].model_url # <<>>
         THEN getProxyUrl(selectedModel[1].model_url)
         ELSE Null

Init ==
    /\ activeTab = "create"
    /\ viewImages = [v \in ViewType |-> Null]
    /\ modelName = ""
    /\ isConverting = FALSE
    /\ conversionResult = Null
    /\ error = Null
    /\ progress = NoProgress
    /\ savedModels = <<>>
    /\ selectedModel = Null
    /\ editingModel = Null
    /\ editName = ""
    /\ editDescription = ""
    /\ models = InitialTable
    /\ nextId = Len(InitialTable) + 1
    /\ convertReqs = <<>>
    /\ listReqs = fetchModels(<<>>)
    /\ mutReqs = <<>>
    /\ userEvents = 0
    /\ lastEvent = Event("mount", 0)

\* A user-interface event.
UserEvent ==
    /\ userEvents < MaxUserEvents
    /\ userEvents' = userEvents + 1

\* The Create tab renders the error box.
ErrorShown == activeTab = "create" /\ error # Null

\* The Create tab renders the "Model saved! Check the Gallery tab." notice.
ModelSavedNoticeShown == activeTab = "create" /\ conversionResult # Null

\* The Gallery tab's preview panel renders a ModelViewer, for displayModelUrl.
GalleryPreviewShown ==
    /\ activeTab = "gallery"
    /\ selectedModel # Null
    /\ displayModelUrl # Null

\* ------------------------------------------------------------- Create tab
setActiveTab(tab) ==
    /\ UserEvent
    /\ activeTab' = tab
    /\ lastEvent' = Event("setActiveTab", tab)
    /\ UNCHANGED <<slotVars, jobVars, galleryVars, editVars, serverVars,
                   convertReqs, listReqs, mutReqs>>

\* handleViewFileChange without the spread of the previous mapping.
handleViewFileChangeForgettingOthers(view, file) ==
    /\ activeTab = "create"
    /\ file = Null => viewImages[view] # Null
    /\ UserEvent
    /\ viewImages' = [v \in ViewType |-> IF v = view THEN file ELSE Null]
    /\ lastEvent' = Event("handleViewFileChange", [view |-> view, file |-> file])
    /\ UNCHANGED <<activeTab, modelName, jobVars, galleryVars, editVars, serverVars,
                   convertReqs, listReqs, mutReqs>>

\* Dropping a file on a slot, or pressing the slot's remove button (shown only
\* while the slot holds a file).
handleViewFileChange(view, file) ==
    /\ activeTab = "create"
    /\ file = Null => viewImages[view] # Null
    /\ UserEvent
    /\ viewImages' = [viewImages EXCEPT ![view] = file]
    /\ lastEvent' = Event("handleViewFileChange", [view |-> view, file |-> file])
    /\ UNCHANGED <<activeTab, modelName, jobVars, galleryVars, editVars, serverVars,
                   convertReqs, listReqs, mutReqs>>

setModelName(name) ==
    /\ activeTab = "create"
    /\ UserEvent
    /\ modelName' = name
    /\ lastEvent' = Event("setModelName", name)
    /\ UNCHANGED <<activeTab, viewImages, jobVars, galleryVars, editVars, serverVars,
                   convertReqs, listReqs, mutReqs>>

\* clearAllViews without setError(null).
clearAllViewsKeepingError ==
    /\ activeTab = "create"
    /\ UserEvent
    /\ viewImages' = [v \in ViewType |-> Null]
    /\ modelName' = ""
    /\ conversionResult' = Null
    /\ lastEvent' = Event("clearAllViews", [result |-> conversionResult, error |-> error])
    /\ UNCHANGED <<activeTab, isConverting, error, progress, galleryVars, editVars, serverVars,
                   convertReqs, listReqs, mutReqs>>

\* The "Clear all" button.
clearAllViews ==
    /\ activeTab = "create"
    /\ UserEvent
    /\ viewImages' = [v \in ViewType |-> Null]
    /\ modelName' = ""
    /\ conversionResult' = Null
    /\ error' = Null
    /\ lastEvent' = Event("clearAllViews", [result |-> conversionResult, error |-> error])
    /\ UNCHANGED <<activeTab, isConverting, progress, galleryVars, editVars, serverVars,
                   convertReqs, listReqs, mutReqs>>

Field(name, value) == <<name, value>>

\* FormData with the front view only.
FormDataFrontOnly(images, name) ==
    <<Field("front", images["front"][1])>>
    \o (IF name # "" THEN <<Field("name", name)>> ELSE <<>>)

\* The multipart body handleConvert assembles.
FormData(images, name) ==
    <<Field("front", images["front"][1])>>
    \o (IF images["back"] # Null THEN <<Field("back", images["back"][1])>> ELSE <<>>)
    \o (IF images["left"] # Null THEN <<Field("left", images["left"][1])>> ELSE <<>>)
    \o (IF images["right"] # Null THEN <<Field("right", images["right"][1])>> ELSE <<>>)
    \o (IF name # "" THEN <<Field("name", name)>> ELSE <<>>)

viewCount(images) == Cardinality({v \in ViewType : images[v] # Null})

\* handleConvert clearing the previous result when a valid submit starts.
handleConvertClearingResult ==
    IF viewImages["front"] = Null
    THEN /\ error' = Some(FrontRequiredMessage)
         /\ UNCHANGED <<isConverting, conversionResult, progress, convertReqs>>
    ELSE /\ isConverting' = TRUE
         /\ error' = Null
         /\ conversionResult' = Null
         /\ progress' = ProcessingMessage(viewCount(viewImages))
         /\ convertReqs' = Append(convertReqs,
                                  [body |-> FormData(viewImages, modelName), resp |-> Null])

\* handleConvert without the return after the validation message.
handleConvertNoReturn ==
    /\ isConverting' = TRUE
    /\ error' = Null
    /\ progress' = ProcessingMessage(viewCount(viewImages))
    /\ convertReqs' = Append(convertReqs,
                             [body |-> IF viewImages["front"] = Null
                                       THEN <<Field("front", "null")>>
                                       ELSE FormData(viewImages, modelName),
                              resp |-> Null])
    /\ UNCHANGED conversionResult

\* handleConvert up to its first await.  The progress text 'Uploading images...'
\* is overwritten within the same synchronous run.
handleConvert ==
    IF viewImages["front"] = Null
    THEN /\ error' = Some(FrontRequiredMessage)
         /\ UNCHANGED <<isConverting, conversionResult, progress, convertReqs>>
    ELSE /\ isConverting' = TRUE
         /\ error' = Null
         /\ progress' = ProcessingMessage(viewCount(viewImages))
         /\ convertReqs' = Append(convertReqs,
                                  [body |-> FormData(viewImages, modelName), resp |-> Null])
         /\ UNCHANGED conversionResult

\* The Convert button disabled only for a missing front view.
ConvertButtonEnabledWhileConverting == viewImages["front"] # Null

\* The Convert button's disabled attribute.
ConvertButtonEnabled == viewImages["front"] # Null /\ ~isConverting

ClickConvert ==
    /\ activeTab = "create"
    /\ ConvertButtonEnabled
    /\ UserEvent
    /\ handleConvert
    /\ lastEvent' = Event("handleConvert", 0)
    /\ UNCHANGED <<activeTab, slotVars, galleryVars, editVars, serverVars, listReqs, mutReqs>>

\* handleConvert invoked as a function: in every state whose front slot is
\* empty, and otherwise while no conversion is in flight.
CallHandleConvert ==
    /\ viewImages["front"] = Null \/ ~isConverting
    /\ UserEvent
    /\ handleConvert
    /\ lastEvent' = Event("handleConvert", 0)
    /\ UNCHANGED <<activeTab, slotVars, galleryVars, editVars, serverVars, listReqs, mutReqs>>

\* ----------------------------------------------- the conversion round trip
\* The name the service gives a model saved from a request.
NameOf(body) ==
    LET named == {k \in 1..Len(body) : body[k][1] = "name"} IN
    IF named = {} THEN "model" ELSE body[CHOOSE k \in named : TRUE][2]

\* The service finishes the conversion of POST i, saving a model or not
\* (model_id is optional in ConversionResult).
ServeConvert(i, save) ==
    /\ convertReqs[i].resp = Null
    /\ IF save
       THEN /\ models' = Append(models, SavedModel(nextId, NameOf(convertReqs[i].body), Null))
            /\ nextId' = nextId + 1
            /\ convertReqs' = [convertReqs EXCEPT ![i].resp = Some(ConversionResult(Some(nextId)))]
       ELSE /\ convertReqs' = [convertReqs EXCEPT ![i].resp = Some(ConversionResult(Null))]
            /\ UNCHANGED serverVars
    /\ lastEvent' = Event("service", 0)
    /\ UNCHANGED <<activeTab, slotVars, jobVars, galleryVars, editVars, listReqs, mutReqs,
                   userEvents>>

\* The service finishes the conversion of POST i and answers with an asset
\* address of its own choosing, saving no model.
ServeConvertWith(i, url) ==
    /\ convertReqs[i].resp = Null
    /\ convertReqs' = [convertReqs EXCEPT ![i].resp = Some([model_id |-> Null, model_url |-> url])]
    /\ lastEvent' = Event("service", 0)
    /\ UNCHANGED <<activeTab, slotVars, jobVars, galleryVars, editVars, serverVars, listReqs,
                   mutReqs, userEvents>>

\* response.json(): the parsed body, or a rejection with the engine's message.
responseJson(body, syntaxError) ==
    IF body.json THEN [ok |-> TRUE, value |-> body, message |-> ""]
    ELSE [ok |-> FALSE, value |-> body, message |-> syntaxError]

\* The message of the error handleConvert catches after a non-2xx response.
NotOkMessage(body, syntaxError) ==
    LET errorData == responseJson(body, syntaxError) IN
    IF ~errorData.ok THEN errorData.message
    ELSE IF errorData.value.detail # Null /\ errorData.value.detail[1] # ""
         THEN errorData.value.detail[1]
         ELSE ConversionFailedMessage

\* handleConvertFulfilled without the call of fetchModels.
handleConvertFulfilledNoRefresh(i) ==
    /\ conversionResult' = convertReqs[i].resp
    /\ progress' = NoProgress
    /\ isConverting' = FALSE
    /\ UNCHANGED <<error, listReqs>>

\* handleConvert after a 2xx response whose body parsed: try block, then finally.
handleConvertFulfilled(i) ==
    /\ conversionResult' = convertReqs[i].resp
    /\ progress' = NoProgress
    /\ listReqs' = fetchModels(listReqs)
    /\ isConverting' = FALSE
    /\ UNCHANGED error

\* handleConvertCaught that also drops the result held from an earlier conversion.
handleConvertCaughtDroppingResult(message) ==
    /\ error' = Some(message)
    /\ progress' = NoProgress
    /\ isConverting' = FALSE
    /\ conversionResult' = Null
    /\ UNCHANGED listReqs

\* handleConvertCaught without setProgress('').
handleConvertCaughtKeepingProgress(message) ==
    /\ error' = Some(message)
    /\ isConverting' = FALSE
    /\ UNCHANGED <<progress, conversionResult, listReqs>>

\* handleConvert after a throw inside the try block: catch block, then finally.
handleConvertCaught(message) ==
    /\ error' = Some(message)
    /\ progress' = NoProgress
    /\ isConverting' = FALSE
    /\ UNCHANGED <<conversionResult, listReqs>>

ConvertResponseOk(i) ==
    /\ convertReqs[i].resp # Null
    /\ handleConvertFulfilled(i)
    /\ convertReqs' = RemoveAt(convertReqs, i)
    /\ lastEvent' = Event("convertFulfilled", convertReqs[i].resp)
    /\ UNCHANGED <<activeTab, slotVars, galleryVars, editVars, serverVars, mutReqs, userEvents>>

\* A 2xx response whose body is not JSON: response.json() rejects at line 226.
ConvertResponseOkMalformed(i, syntaxError) ==
    /\ handleConvertCaught(responseJson([json |-> FALSE, detail |-> Null], syntaxError).message)
    /\ convertReqs' = RemoveAt(convertReqs, i)
    /\ lastEvent' = Event("convertMalformed", syntaxError)
    /\ UNCHANGED <<activeTab, slotVars, galleryVars, editVars, serverVars, mutReqs, userEvents>>

ConvertResponseNotOk(i, body, syntaxError) ==
    /\ handleConvertCaught(NotOkMessage(body, syntaxError))
    /\ convertReqs' = RemoveAt(convertReqs, i)
    /\ lastEvent' = Event("convertNotOk", body)
    /\ UNCHANGED <<activeTab, slotVars, galleryVars, editVars, serverVars, mutReqs, userEvents>>

\* fetch rejects: no response.
ConvertNetworkError(i, message) ==
    /\ handleConvertCaught(message)
    /\ convertReqs' = RemoveAt(convertReqs, i)
    /\ lastEvent' = Event("convertNetworkError", message)
    /\ UNCHANGED <<activeTab, slotVars, galleryVars, editVars, serverVars, mutReqs, userEvents>>

ConvertActions ==
    \/ ClickConvert
    \/ \E i \in 1..Len(convertReqs) : \E save \in BOOLEAN : ServeConvert(i, save)
    \/ \E i \in 1..Len(convertReqs) : ConvertResponseOk(i)
    \/ \E i \in 1..Len(convertReqs) : \E m \in JsonSyntaxErrorMessages :
          ConvertResponseOkMalformed(i, m)
    \/ \E i \in 1..Len(convertReqs) : \E b \in ErrorBodies : \E m \in JsonSyntaxErrorMessages :
          ConvertResponseNotOk(i, b, m)
    \/ \E i \in 1..Len(convertReqs) : \E m \in NetworkErrorMessages : ConvertNetworkError(i, m)

CreateTabActions ==
    \/ \E v \in ViewType : \E f \in {Null} \cup {Some(x) : x \in Files} : handleViewFileChange(v, f)
    \/ \E n \in ModelNames : setModelName(n)
    \/ clearAllViews

\* ------------------------------------------------------ the gallery list
\* The service answers GET i with its table as it is at that moment.
ServeList(i) ==
    /\ listReqs[i].resp = Null
    /\ listReqs' = [listReqs EXCEPT ![i].resp = Some(models)]
    /\ lastEvent' = Event("service", 0)
    /\ UNCHANGED <<activeTab, slotVars, jobVars, galleryVars, editVars, serverVars,
                   convertReqs, mutReqs, userEvents>>

\* `data.models || []` for a parsed body.
ModelsOf(data) == IF data.models # Null THEN data.models[1] ELSE <<>>

\* fetchModels after its awaits, for a response whose body parsed.
fetchModelsFulfilled(data) == savedModels' = ModelsOf(data)

\* fetchModelsCaught emptying the gallery.
fetchModelsCaughtEmptying == savedModels' = <<>>

\* fetchModels after fetch or response.json() rejected: the catch block logs.
fetchModelsCaught == UNCHANGED savedModels

ListResponseOk(i) ==
    /\ listReqs[i].resp # Null
    /\ fetchModelsFulfilled([models |-> listReqs[i].resp])
    /\ listReqs' = RemoveAt(listReqs, i)
    /\ lastEvent' = Event("listFulfilled", 0)
    /\ UNCHANGED <<activeTab, slotVars, jobVars, selectedModel, editVars, serverVars,
                   convertReqs, mutReqs, userEvents>>

\* A non-2xx answer with a JSON body that has no models field: response.ok
\* is not looked at.
ListResponseNotOk(i) ==
    /\ fetchModelsFulfilled([models |-> Null])
    /\ listReqs' = RemoveAt(listReqs, i)
    /\ lastEvent' = Event("listNotOk", 0)
    /\ UNCHANGED <<activeTab, slotVars, jobVars, selectedModel, editVars, serverVars,
                   convertReqs, mutReqs, userEvents>>

\* fetch rejects (no response), or the body is not JSON.
ListRejected(i, reason) ==
    /\ fetchModelsCaught
    /\ listReqs' = RemoveAt(listReqs, i)
    /\ lastEvent' = Event("listRejected", reason)
    /\ UNCHANGED <<activeTab, slotVars, jobVars, selectedModel, editVars, serverVars,
                   convertReqs, mutReqs, userEvents>>

ListActions ==
    \/ \E i \in 1..Len(listReqs) : ServeList(i)
    \/ \E i \in 1..Len(listReqs) : ListResponseOk(i)

ListFailures ==
    \/ \E i \in 1..Len(listReqs) : ListResponseNotOk(i)
    \/ \E i \in 1..Len(listReqs) : \E r \in {"network", "malformed"} : ListRejected(i, r)

\* ------------------------------------------------------------ Gallery tab
\* Clicking the card of savedModels[k].
SelectModel(k) ==
    /\ activeTab = "gallery"
    /\ UserEvent
    /\ selectedModel' = Some(savedModels[k])
    /\ conversionResult' = Null
    /\ lastEvent' = Event("selectModel", [model |-> savedModels[k], previous |-> selectedModel,
                                          result |-> conversionResult])
    /\ UNCHANGED <<activeTab, slotVars, isConverting, error, progress, savedModels, editVars,
                   serverVars, convertReqs, listReqs, mutReqs>>

\* Whether the card of model shows the edit form rather than its buttons.
CardEditing(model) == editingModel = Some(model.id)

\* The edit button of savedModels[k].
StartEdit(k) ==
    /\ activeTab = "gallery"
    /\ ~CardEditing(savedModels[k])
    /\ UserEvent
    /\ editingModel' = Some(savedModels[k].id)
    /\ editName' = savedModels[k].name
    /\ editDescription' = (IF savedModels[k].description # Null /\ savedModels[k].description[1] # ""
                           THEN savedModels[k].description[1] ELSE "")
    /\ lastEvent' = Event("startEdit", savedModels[k].id)
    /\ UNCHANGED <<activeTab, slotVars, jobVars, galleryVars, serverVars,
                   convertReqs, listReqs, mutReqs>>

EditFormShown == \E k \in 1..Len(savedModels) : CardEditing(savedModels[k])

setEditName(name) ==
    /\ activeTab = "gallery"
    /\ EditFormShown
    /\ UserEvent
    /\ editName' = name
    /\ lastEvent' = Event("setEditName", name)
    /\ UNCHANGED <<activeTab, slotVars, jobVars, galleryVars, editingModel, editDescription,
                   serverVars, convertReqs, listReqs, mutReqs>>

setEditDescription(description) ==
    /\ activeTab = "gallery"
    /\ EditFormShown
    /\ UserEvent
    /\ editDescription' = description
    /\ lastEvent' = Event("setEditDescription", description)
    /\ UNCHANGED <<activeTab, slotVars, jobVars, galleryVars, editingModel, editName,
                   serverVars, convertReqs, listReqs, mutReqs>>

CancelEdit ==
    /\ activeTab = "gallery"
    /\ EditFormShown
    /\ UserEvent
    /\ editingModel' = Null
    /\ lastEvent' = Event("cancelEdit", 0)
    /\ UNCHANGED <<activeTab, slotVars, jobVars, galleryVars, editName, editDescription,
                   serverVars, convertReqs, listReqs, mutReqs>>

\* handleUpdateModel up to its await: the PUT leaves with the drafts of this render.
handleUpdateModel(modelId) ==
    mutReqs' = Append(mutReqs, [method |-> "PUT", id |-> modelId, name |-> editName,
                                description |-> editDescription, selected |-> Null,
                                served |-> FALSE, ok |-> FALSE])

\* handleUpdateModelFulfilled without setEditingModel(null).
handleUpdateModelFulfilledKeepingEdit(req) ==
    /\ listReqs' = fetchModels(listReqs)
    /\ UNCHANGED <<editingModel, selectedModel>>

\* handleUpdateModel after fetch resolved (with any HTTP status).
handleUpdateModelFulfilled(req) ==
    /\ editingModel' = Null
    /\ listReqs' = fetchModels(listReqs)
    /\ UNCHANGED selectedModel

\* handleUpdateModel after fetch rejected: the catch block logs.
handleUpdateModelCaught(req) ==
    UNCHANGED <<editingModel, listReqs, selectedModel>>

\* handleDeleteModel up to its await, the prompt answered yes.  The closure
\* keeps the selectedModel of the render the click happened in.
handleDeleteModel(modelId) ==
    mutReqs' = Append(mutReqs, [method |-> "DELETE", id |-> modelId, name |-> "",
                                description |-> "", selected |-> selectedModel,
                                served |-> FALSE, ok |-> FALSE])

\* handleDeleteModelFulfilled without the call of fetchModels.
handleDeleteModelFulfilledNoRefresh(req) ==
    /\ IF req.selected # Null /\ req.selected[1].id = req.id
       THEN selectedModel' = Null
       ELSE UNCHANGED selectedModel
    /\ UNCHANGED <<editingModel, listReqs>>

\* handleDeleteModel after fetch resolved (with any HTTP status): selectedModel
\* is the closure's.
handleDeleteModelFulfilled(req) ==
    /\ listReqs' = fetchModels(listReqs)
    /\ IF req.selected # Null /\ req.selected[1].id = req.id
       THEN selectedModel' = Null
       ELSE UNCHANGED selectedModel
    /\ UNCHANGED editingModel

\* handleDeleteModel after fetch rejected: the catch block logs.
handleDeleteModelCaught(req) ==
    UNCHANGED <<editingModel, listReqs, selectedModel>>

\* The Save button of the card of savedModels[k].
ClickSave(k) ==
    /\ activeTab = "gallery"
    /\ CardEditing(savedModels[k])
    /\ UserEvent
    /\ handleUpdateModel(savedModels[k].id)
    /\ lastEvent' = Event("handleUpdateModel", savedModels[k].id)
    /\ UNCHANGED <<activeTab, slotVars, jobVars, galleryVars, editVars, serverVars,
                   convertReqs, listReqs>>

\* ClickDelete with the answer to confirm() ignored.
ClickDeleteUnconfirmed(k, confirmed) ==
    /\ activeTab = "gallery"
    /\ ~CardEditing(savedModels[k])
    /\ UserEvent
    /\ handleDeleteModel(savedModels[k].id)
    /\ lastEvent' = Event(IF confirmed THEN "handleDeleteModel" ELSE "deleteDeclined",
                          savedModels[k].id)
    /\ UNCHANGED <<activeTab, slotVars, jobVars, galleryVars, editVars, serverVars,
                   convertReqs, listReqs>>

\* The delete button of the card of savedModels[k], and the answer to confirm().
ClickDelete(k, confirmed) ==
    /\ activeTab = "gallery"
    /\ ~CardEditing(savedModels[k])
    /\ UserEvent
    /\ IF confirmed THEN handleDeleteModel(savedModels[k].id) ELSE UNCHANGED mutReqs
    /\ lastEvent' = Event(IF confirmed THEN "handleDeleteModel" ELSE "deleteDeclined",
                          savedModels[k].id)
    /\ UNCHANGED <<activeTab, slotVars, jobVars, galleryVars, editVars, serverVars,
                   convertReqs, listReqs>>

\* The service carries out a PUT or DELETE on its table.
ApplyMutation(req, table) ==
    IF req.method = "PUT"
    THEN [k \in 1..Len(table) |->
            IF table[k].id = req.id
            THEN [table[k] EXCEPT !.name = req.name, !.description = Some(req.description)]
            ELSE table[k]]
    ELSE SelectSeq(table, LAMBDA m : m.id # req.id)

\* The service answers PUT or DELETE i: it carries it out (2xx), or answers
\* with an error status (a model it does not hold, or a failure of its own)
\* and changes nothing.
ServeMutation(i, accept) ==
    /\ ~mutReqs[i].served
    /\ LET ok == accept /\ \E k \in 1..Len(models) : models[k].id = mutReqs[i].id IN
       /\ models' = (IF ok THEN ApplyMutation(mutReqs[i], models) ELSE models)
       /\ mutReqs' = [mutReqs EXCEPT ![i].served = TRUE, ![i].ok = ok]
    /\ lastEvent' = Event("service", 0)
    /\ UNCHANGED <<activeTab, slotVars, jobVars, galleryVars, editVars, nextId,
                   convertReqs, listReqs, userEvents>>

MutationResponse(i) ==
    /\ mutReqs[i].served
    /\ IF mutReqs[i].method = "PUT"
       THEN handleUpdateModelFulfilled(mutReqs[i])
       ELSE handleDeleteModelFulfilled(mutReqs[i])
    /\ mutReqs' = RemoveAt(mutReqs, i)
    /\ lastEvent' = Event(IF mutReqs[i].method = "PUT" THEN "updateFulfilled" ELSE "deleteFulfilled",
                          mutReqs[i])
    /\ UNCHANGED <<activeTab, slotVars, jobVars, savedModels, editName, editDescription,
                   serverVars, convertReqs, userEvents>>

\* fetch rejects: the request or its response was lost.
MutationNetworkError(i) ==
    /\ IF mutReqs[i].method = "PUT"
       THEN handleUpdateModelCaught(mutReqs[i])
       ELSE handleDeleteModelCaught(mutReqs[i])
    /\ mutReqs' = RemoveAt(mutReqs, i)
    /\ lastEvent' = Event(IF mutReqs[i].method = "PUT" THEN "updateRejected" ELSE "deleteRejected",
                          mutReqs[i])
    /\ UNCHANGED <<activeTab, slotVars, jobVars, savedModels, editName, editDescription,
                   serverVars, convertReqs, userEvents>>

GalleryTabActions ==
    \/ \E k \in 1..Len(savedModels) : SelectModel(k)
    \/ \E k \in 1..Len(savedModels) : StartEdit(k)
    \/ \E n \in EditNames : setEditName(n)
    \/ \E d \in EditDescriptions : setEditDescription(d)
    \/ CancelEdit
    \/ \E k \in 1..Len(savedModels) : ClickSave(k)
    \/ \E k \in 1..Len(savedModels) : \E c \in BOOLEAN : ClickDelete(k, c)

MutationActions ==
    \/ \E i \in 1..Len(mutReqs) : \E accept \in BOOLEAN : ServeMutation(i, accept)
    \/ \E i \in 1..Len(mutReqs) : MutationResponse(i)
    \/ \E i \in 1..Len(mutReqs) : MutationNetworkError(i)

\* The page as the user drives it, every request free to fail.
Next ==
    \/ \E tab \in {"create", "gallery"} : setActiveTab(tab)
    \/ CreateTabActions
    \/ ConvertActions
    \/ GalleryTabActions
    \/ ListActions
    \/ ListFailures
    \/ MutationActions

Spec == Init /\ [][Next]_vars

\* The awaited fetch of handleConvert settles: it resolves with a response of
\* any status or rejects.
ConvertRequestSettles ==
    \/ \E i \in 1..Len(convertReqs) : ConvertResponseOk(i)
    \/ \E i \in 1..Len(convertReqs) : \E m \in JsonSyntaxErrorMessages :
          ConvertResponseOkMalformed(i, m)
    \/ \E i \in 1..Len(convertReqs) : \E b \in ErrorBodies : \E m \in JsonSyntaxErrorMessages :
          ConvertResponseNotOk(i, b, m)
    \/ \E i \in 1..Len(convertReqs) : \E m \in NetworkErrorMessages : ConvertNetworkError(i, m)

\* The Create tab, with every conversion request eventually settled by the
\* browser.
NextCreate ==
    \/ CreateTabActions
    \/ ConvertActions

SpecSettling == Init /\ [][NextCreate]_vars /\ WF_vars(ConvertRequestSettles)

\* The Create tab once the user has dropped files on any of the slots (a
\* different file on each) and typed any name, before the first submit.
SlotFile(view) == view \o ".png"

InitSlots ==
    /\ activeTab = "create"
    /\ \E filled \in SUBSET ViewType :
          viewImages = [v \in ViewType |-> IF v \in filled THEN Some(SlotFile(v)) ELSE Null]
    /\ modelName \in ModelNames
    /\ isConverting = FALSE
    /\ conversionResult = Null
    /\ error = Null
    /\ progress = NoProgress
    /\ savedModels = <<>>
    /\ selectedModel = Null
    /\ editingModel = Null
    /\ editName = ""
    /\ editDescription = ""
    /\ models = InitialTable
    /\ nextId = Len(InitialTable) + 1
    /\ convertReqs = <<>>
    /\ listReqs = fetchModels(<<>>)
    /\ mutReqs = <<>>
    /\ userEvents = 0
    /\ lastEvent = Event("mount", 0)

SpecSlots == InitSlots /\ [][NextCreate]_vars

\* The Create tab with conversions that succeed, the service free to answer
\* with any asset address.
NextProxy ==
    \/ \E f \in {Null} \cup {Some(x) : x \in Files} : handleViewFileChange("front", f)
    \/ ClickConvert
    \/ \E i \in 1..Len(convertReqs) : \E url \in UrlInputs : ServeConvertWith(i, url)
    \/ \E i \in 1..Len(convertReqs) : ConvertResponseOk(i)

SpecProxy == Init /\ [][NextProxy]_vars

\* The Create tab with handleConvert also invoked as a function (the contract
\* of submit), whether or not the Convert button is disabled for a missing
\* front view.
NextCall ==
    \/ CallHandleConvert
    \/ CreateTabActions
    \/ ConvertActions
    \/ ListActions
    \/ ListFailures

SpecCall == Init /\ [][NextCall]_vars

\* The page with every list() request answered successfully.
NextReliable ==
    \/ \E tab \in {"create", "gallery"} : setActiveTab(tab)
    \/ CreateTabActions
    \/ ConvertActions
    \/ GalleryTabActions
    \/ ListActions
    \/ MutationActions

SpecReliable == Init /\ [][NextReliable]_vars

\* ------------------------------------------------------------------ claims
ConvertFailureEvents == {"convertNotOk", "convertMalformed", "convertNetworkError"}
ListResponseEvents == {"listFulfilled", "listNotOk", "listRejected"}

\* C1: whenever handleConvert is invoked with the front slot empty, no request
\* of any kind is issued, the error becomes the front-view-required message,
\* and isConverting, progress, the conversion result, the slots and the
\* gallery are left as they were.
C1_EmptyFrontIsRejectedLocally ==
    [][(lastEvent'[1] = "handleConvert" /\ viewImages["front"] = Null)
        => /\ error' = Some(FrontRequiredMessage)
           /\ UNCHANGED <<convertReqs, listReqs, mutReqs>>
           /\ UNCHANGED <<isConverting, progress, conversionResult, viewImages, modelName,
                          savedModels, selectedModel>>]_vars

C1_Witness ==
    /\ lastEvent[1] = "handleConvert"
    /\ viewImages["front"] = Null
    /\ error = Some(FrontRequiredMessage)
    /\ convertReqs = <<>>

\* C2: at most one conversion POST is in flight, and isConverting is true
\* exactly while one is, whatever the user and the network do in between.
C2_AtMostOneConversionInFlight ==
    /\ Len(convertReqs) <= 1
    /\ isConverting <=> Len(convertReqs) = 1

\* A POST is in flight while the user faces the Convert button with a front
\* view set and events left to fire.
C2_Witness ==
    /\ Len(convertReqs) = 1
    /\ isConverting
    /\ activeTab = "create"
    /\ viewImages["front"] # Null
    /\ userEvents < MaxUserEvents
    /\ lastEvent[1] \in {"handleViewFileChange", "setActiveTab", "clearAllViews"}

\* C3: after a non-2xx response of the convert endpoint the error text is the
\* body's detail when the body carries a non-empty one, and the fixed
\* fallback for every other body, a body that is not JSON included.
C3_ErrorIsDetailOrFallback ==
    lastEvent[1] = "convertNotOk"
    => error = Some(IF lastEvent[2].detail # Null /\ lastEvent[2].detail[1] # ""
                    THEN lastEvent[2].detail[1]
                    ELSE ConversionFailedMessage)

\* C4: a conversion that completes successfully issues exactly one list()
\* request and is reported as successful (result set, error empty); a
\* conversion that fails issues none; and no answer to a list() request,
\* success or failure, changes the result or the error.
C4_OneRefreshPerSuccess ==
    [][/\ lastEvent'[1] = "convertFulfilled"
          => /\ Len(listReqs') = Len(listReqs) + 1
             /\ conversionResult' = lastEvent'[2]
             /\ conversionResult' # Null
             /\ error' = Null
       /\ lastEvent'[1] \in ConvertFailureEvents => listReqs' = listReqs
       /\ lastEvent'[1] \in ListResponseEvents => UNCHANGED <<conversionResult, error>>]_vars

\* A conversion succeeded, and a list() request failed after its refresh was
\* issued, leaving nothing in flight: the success is still reported.
C4_Witness ==
    /\ lastEvent[1] \in {"listNotOk", "listRejected"}
    /\ listReqs = <<>>
    /\ conversionResult # Null
    /\ error = Null

\* C5: when the answer to a confirmed DELETE of model id arrives, the selection
\* is cleared if the model selected at that moment has identifier id, and is
\* left as it is otherwise, also when the selection changed while the request
\* was in flight.
C5_DeleteClearsCurrentSelection ==
    [][lastEvent'[1] = "deleteFulfilled"
        => IF selectedModel # Null /\ selectedModel[1].id = lastEvent'[2].id
           THEN selectedModel' = Null
           ELSE selectedModel' = selectedModel]_vars

UpdateSettledEvents == {"updateFulfilled", "updateRejected"}

\* C6 (as claimed): once the update request has settled, edit mode is exited,
\* whether it succeeded, was answered with a non-2xx status, or failed at the
\* network level.
C6_EditExitsOnAnyOutcome ==
    [][lastEvent'[1] \in UpdateSettledEvents => editingModel' = Null]_vars

\* C6 (amended): edit mode is exited when the update request is answered, with
\* a 2xx or a non-2xx status; when the request fails at the network level the
\* edit-mode state is left as it is.
C6_EditExitsOnAnyResponse ==
    [][/\ lastEvent'[1] = "updateFulfilled" => editingModel' = Null
       /\ lastEvent'[1] = "updateRejected" => UNCHANGED editVars]_vars

\* An update was answered with a non-2xx status and edit mode is exited.
C6_Witness ==
    /\ lastEvent[1] = "updateFulfilled"
    /\ ~lastEvent[2].ok
    /\ editingModel = Null

MutationFulfilledEvents == {"convertFulfilled", "updateFulfilled", "deleteFulfilled"}
MutationRejectedEvents == {"updateRejected", "deleteRejected"}

\* C7 (as claimed): whenever a mutation request returns (a successful
\* conversion, an update or a confirmed delete, the latter two on any outcome,
\* a network-level failure included) one fresh list() request is issued.
C7_RefreshAfterEveryMutation ==
    [][lastEvent'[1] \in MutationFulfilledEvents \cup MutationRejectedEvents
        => listReqs' = Append(listReqs, [resp |-> Null])]_vars

\* C7 (amended): one fresh list() request is issued after a successful
\* conversion and after every update or delete that is answered, with a 2xx
\* or a non-2xx status; an update or delete that fails at the network level
\* issues none.
C7_RefreshAfterEveryAnsweredMutation ==
    [][/\ lastEvent'[1] \in MutationFulfilledEvents
          => listReqs' = Append(listReqs, [resp |-> Null])
       /\ lastEvent'[1] \in MutationRejectedEvents => listReqs' = listReqs]_vars

\* A delete was answered with a non-2xx status and its refresh is in flight.
C7_Witness ==
    /\ lastEvent[1] = "deleteFulfilled"
    /\ ~lastEvent[2].ok
    /\ listReqs # <<>>
    /\ listReqs[Len(listReqs)].resp = Null

Ids(table) == {table[k].id : k \in 1..Len(table)}

\* C8: with every list() request answered successfully: once no list()
\* request is outstanding, the model saved by the conversion whose result is
\* held, if the service still holds it, is in the gallery snapshot.
C8_SavedModelReachesGallery ==
    (/\ conversionResult # Null
     /\ conversionResult[1].model_id # Null
     /\ conversionResult[1].model_id[1] \in Ids(models)
     /\ listReqs = <<>>)
    => conversionResult[1].model_id[1] \in Ids(savedModels)

\* C9 (as claimed): when a valid submit starts while an asset is displayed,
\* the displayed address stops being that asset's.
C9_SubmitSupersedesDisplayedAsset ==
    [][(lastEvent'[1] = "handleConvert" /\ viewImages["front"] # Null /\ displayModelUrl # Null)
        => displayModelUrl' # displayModelUrl]_vars

\* C9 (amended): a new conversion supersedes the displayed asset only when it
\* completes successfully, the displayed address then being the new result's
\* asset; when a valid submit starts and when the conversion fails, the
\* displayed address stays what it was.
C9_OnlySuccessSupersedesDisplayedAsset ==
    [][/\ lastEvent'[1] = "handleConvert" => displayModelUrl' = displayModelUrl
       /\ lastEvent'[1] \in ConvertFailureEvents => displayModelUrl' = displayModelUrl
       /\ lastEvent'[1] = "convertFulfilled"
          => displayModelUrl' = getProxyUrl(lastEvent'[2][1].model_url)]_vars

\* A second conversion failed and the asset of the first is still displayed.
C9_Witness ==
    /\ lastEvent[1] \in ConvertFailureEvents
    /\ conversionResult # Null
    /\ displayModelUrl = getProxyUrl(conversionResult[1].model_url)
    /\ error # Null

\* C10: the displayed address is the result's asset if a result is held, else
\* the selected model's asset, else none; and right after model B is clicked in
\* the gallery it is B's asset, with no result held, and not the asset of a
\* different model A selected before.
C10_DisplayedAddressIsDerived ==
    /\ displayModelUrl =
         (IF conversionResult # Null THEN getProxyUrl(conversionResult[1].model_url)
          ELSE IF selectedModel # Null THEN getProxyUrl(selectedModel[1].model_url)
          ELSE Null)
    /\ lastEvent[1] = "selectModel"
       => /\ conversionResult = Null
          /\ displayModelUrl = getProxyUrl(lastEvent[2].model.model_url)
          /\ displayModelUrl # Null
          /\ (lastEvent[2].previous # Null /\ lastEvent[2].previous[1].id # lastEvent[2].model.id)
             => displayModelUrl # getProxyUrl(lastEvent[2].previous[1].model_url)

\* Model B was clicked while a different model A was selected.
C10_Witness ==
    /\ lastEvent[1] = "selectModel"
    /\ lastEvent[2].previous # Null
    /\ lastEvent[2].previous[1].id # lastEvent[2].model.id
    /\ selectedModel = Some(lastEvent[2].model)
    /\ displayModelUrl = getProxyUrl(lastEvent[2].model.model_url)

\* C11: a step in which a conversion fails (non-2xx answer, unreadable body or
\* network failure) sets the error text and leaves the view slots, the model
\* name, the selected model, the gallery snapshot, the edit-mode state and the
\* conversion result held from before unchanged; the submit itself leaves the
\* same things unchanged too.
C11_FailureLeavesTheRestIntact ==
    [][/\ lastEvent'[1] \in ConvertFailureEvents
          => /\ error' # Null
             /\ UNCHANGED <<slotVars, galleryVars, editVars, conversionResult>>
       /\ lastEvent'[1] = "handleConvert"
          => UNCHANGED <<slotVars, galleryVars, editVars, conversionResult>>]_vars

\* A conversion failed while a gallery snapshot, a filled front slot and the
\* result of an earlier conversion existed.
C11_Witness ==
    /\ lastEvent[1] \in {"convertNotOk", "convertNetworkError"}
    /\ error # Null
    /\ viewImages["front"] # Null
    /\ savedModels # <<>>
    /\ conversionResult # Null

ConvertSettledEvents == ConvertFailureEvents \cup {"convertFulfilled"}

\* C12: in every reachable state the progress text is non-empty exactly when a
\* conversion is in flight; a submit puts the conversion in flight; a conversion
\* in flight eventually leaves the in-flight state, given that its request
\* settles; and the step that ends it leaves the progress text empty and either
\* sets a new result with no error, or sets an error with no new result.
C12_ConversionLifecycle ==
    /\ [](/\ progress # NoProgress <=> isConverting
          /\ isConverting <=> convertReqs # <<>>)
    /\ isConverting ~> ~isConverting
    /\ [][/\ lastEvent'[1] = "handleConvert" => ~isConverting /\ isConverting'
          /\ lastEvent'[1] \in ConvertSettledEvents
             => /\ isConverting /\ ~isConverting'
                /\ progress' = NoProgress
                /\ \/ /\ lastEvent'[1] = "convertFulfilled"
                      /\ conversionResult' = lastEvent'[2]
                      /\ conversionResult' # Null
                      /\ error' = Null
                   \/ /\ lastEvent'[1] \in ConvertFailureEvents
                      /\ error' # Null
                      /\ UNCHANGED conversionResult]_vars

\* A conversion was submitted and has ended in failure, while the result of an
\* earlier one is still held.
C12_Witness ==
    /\ lastEvent[1] \in ConvertFailureEvents
    /\ ~isConverting
    /\ progress = NoProgress
    /\ convertReqs = <<>>
    /\ error # Null
    /\ conversionResult # Null

\* The fields of the request body of the conversion submitted last.
LastBody == convertReqs[Len(convertReqs)].body

\* C13: right after a submit with the front slot filled, the request body holds
\* one file field per non-empty slot, carrying that slot's file, and none for an
\* empty slot; a name field exactly when the name is non-empty, carrying it; no
\* other field; and the view count in the progress text is the number of file
\* fields.
C13_RequestCarriesFilledSlots ==
    lastEvent[1] = "handleConvert" =>
        LET fileFields == {k \in 1..Len(LastBody) : LastBody[k][1] \in ViewType}
            nameFields == {k \in 1..Len(LastBody) : LastBody[k][1] = "name"}
        IN  /\ viewImages["front"] # Null
            /\ \A v \in ViewType :
                  LET ks == {k \in fileFields : LastBody[k][1] = v} IN
                  IF viewImages[v] = Null THEN ks = {}
                  ELSE /\ Cardinality(ks) = 1
                       /\ \A k \in ks : LastBody[k][2] = viewImages[v][1]
            /\ IF modelName = "" THEN nameFields = {}
               ELSE /\ Cardinality(nameFields) = 1
                    /\ \A k \in nameFields : LastBody[k][2] = modelName
            /\ fileFields \cup nameFields = 1..Len(LastBody)
            /\ progress = ProcessingMessage(Cardinality(fileFields))

\* All four slots and the name were filled at the submit: four file fields and
\* a name field were sent.
C13_Witness ==
    /\ lastEvent[1] = "handleConvert"
    /\ \A v \in ViewType : viewImages[v] # Null
    /\ viewImages["front"] # viewImages["back"]
    /\ modelName # ""
    /\ Len(LastBody) = Cardinality(ViewType) + 1
    /\ progress = ProcessingMessage(Cardinality(ViewType))

\* C14: a DELETE request is issued only in the step in which the user answers
\* the prompt with yes, and it names the model of the card clicked; the step in
\* which the user declines issues no request of any kind (no DELETE, no list())
\* and leaves the selection, the gallery snapshot, the edit-mode state and the
\* service's table unchanged.
C14_DeleteOnlyAfterConfirmation ==
    [][/\ lastEvent'[1] = "deleteDeclined"
          => UNCHANGED <<mutReqs, listReqs, convertReqs, galleryVars, editVars, serverVars>>
       /\ (/\ Len(mutReqs') > Len(mutReqs)
           /\ mutReqs'[Len(mutReqs')].method = "DELETE")
          => /\ lastEvent'[1] = "handleDeleteModel"
             /\ mutReqs'[Len(mutReqs')].id = lastEvent'[2]
             /\ mutReqs' = Append(mutReqs, mutReqs'[Len(mutReqs')])]_vars

\* The user declined the deletion of a card while a model was selected and a
\* card was in edit mode.
C14_Witness ==
    /\ lastEvent[1] = "deleteDeclined"
    /\ selectedModel # Null
    /\ editingModel # Null
    /\ mutReqs = <<>>
    /\ listReqs = <<>>
    /\ Len(savedModels) = Len(models)

\* C15: the step in which a list() request fails (fetch rejects, or the body
\* cannot be read) leaves the gallery snapshot, the error text and all other
\* page state as they were and only retires the request; the step in which a
\* list() request succeeds makes the snapshot the sequence that request was
\* answered with, in the same order, and changes nothing else.
C15_ListFailureKeepsSnapshot ==
    [][/\ lastEvent'[1] = "listRejected"
          => /\ UNCHANGED <<activeTab, slotVars, jobVars, galleryVars, editVars,
                            convertReqs, mutReqs>>
             /\ \E i \in 1..Len(listReqs) : listReqs' = RemoveAt(listReqs, i)
       /\ lastEvent'[1] = "listFulfilled"
          => /\ UNCHANGED <<activeTab, slotVars, jobVars, selectedModel, editVars,
                            convertReqs, mutReqs>>
             /\ \E i \in 1..Len(listReqs) :
                   /\ listReqs[i].resp = Some(savedModels')
                   /\ listReqs' = RemoveAt(listReqs, i)]_vars

\* A list() request failed at the network level while the gallery held models.
C15_Witness ==
    /\ lastEvent[1] = "listRejected"
    /\ lastEvent[2] = "network"
    /\ savedModels # <<>>
    /\ error = Null

\* C16: the step of clearAllViews, whatever the state it is taken in (slots
\* filled, a result or an error shown, a conversion in flight), leaves all four
\* slots empty and the conversion result and the error empty, and issues or
\* retires no request and changes nothing at the service.
C16_ClearAllIsLocal ==
    [][lastEvent'[1] = "clearAllViews"
          => /\ \A v \in ViewType : viewImages'[v] = Null
             /\ conversionResult' = Null
             /\ error' = Null
             /\ UNCHANGED <<convertReqs, listReqs, mutReqs, serverVars>>]_vars

\* Clear all was pressed while a result and an error were both shown.
C16_Witness ==
    /\ lastEvent[1] = "clearAllViews"
    /\ lastEvent[2].result # Null
    /\ lastEvent[2].error # Null
    /\ conversionResult = Null
    /\ error = Null
    /\ \A v \in ViewType : viewImages[v] = Null

\* C17: the slot mapping always has exactly the four keys front, back, left and
\* right; and the step of handleViewFileChange(view, file) makes slot view hold
\* file and leaves the other three slots and all state that is not a slot
\* unchanged.
C17_SetSlotTouchesOneSlot ==
    /\ [](DOMAIN viewImages = ViewType)
    /\ [][lastEvent'[1] = "handleViewFileChange"
            => /\ viewImages'[lastEvent'[2].view] = lastEvent'[2].file
               /\ \A v \in ViewType \ {lastEvent'[2].view} : viewImages'[v] = viewImages[v]
               /\ UNCHANGED <<activeTab, modelName, jobVars, galleryVars, editVars,
                              serverVars, convertReqs, listReqs, mutReqs>>]_vars

\* A file was dropped on the back slot while the other three slots held files
\* and a result was shown.
C17_Witness ==
    /\ lastEvent[1] = "handleViewFileChange"
    /\ lastEvent[2].view = "back"
    /\ lastEvent[2].file # Null
    /\ viewImages["back"] = lastEvent[2].file
    /\ \A v \in ViewType \ {"back"} : viewImages[v] = Some(SlotFile(v))
    /\ conversionResult # Null

SchemeCharacters == {"h", "t", "p", "s", "f", "d", "o", "c", "H", "T", "P"}

\* A fully-qualified URL: a scheme, "://" and something after it.
IsFullyQualified(url) ==
    \E k \in 2..Len(url) :
        /\ \A j \in 1..(k - 1) : url[j] \in SchemeCharacters
        /\ k + 2 < Len(url)
        /\ SubSeq(url, k, k + 2) = <<":", "/", "/">>

\* An address on the page's own origin: a path, with no scheme and no host.
IsSameOrigin(address) ==
    /\ address # <<>>
    /\ address[1] = "/"
    /\ Len(address) > 1 => address[2] # "/"

\* C18 as stated: for the asset address of any result received and for both an
\* unset and a set base address, getProxyUrl returns none for the empty
\* address, the address itself for a non-empty address that is not a
\* fully-qualified URL, and a same-origin proxy address for a fully-qualified
\* URL.
C18_ProxyForFullyQualifiedUrls ==
    conversionResult # Null =>
        \A base \in ApiBases :
            LET url == conversionResult[1].model_url
                r == getProxyUrlAt(base, url)
            IN  /\ url = <<>> => r = Null
                /\ (url # <<>> /\ ~IsFullyQualified(url)) => r = Some(url)
                /\ IsFullyQualified(url)
                   => /\ r # Null
                      /\ r # Some(url)
                      /\ IsSameOrigin(r[1])

ReservedCharacters == {":", "/", "?", "="}

\* C18, amended: getProxyUrl returns none for the empty address and the address
\* itself for a non-empty address that does not begin with "http"; for an
\* address that begins with "http" it returns the base address followed by
\* /api/proxy-glb?url= and the address with its reserved characters
\* percent-encoded, which is an address on the page's own origin when the base
\* address is unset; and the displayed address is that of the build's base.
C18_ProxyForHttpPrefix ==
    conversionResult # Null =>
        LET url == conversionResult[1].model_url IN
        /\ url # <<>> => displayModelUrl = getProxyUrlAt(API_BASE, url)
        /\ \A base \in ApiBases :
              LET r == getProxyUrlAt(base, url) IN
              /\ url = <<>> => r = Null
              /\ (url # <<>> /\ ~startsWith(url, HTTP)) => r = Some(url)
              /\ startsWith(url, HTTP)
                 => /\ r # Null
                    /\ startsWith(r[1], base \o PROXY_PATH)
                    /\ LET query == SubSeq(r[1], Len(base \o PROXY_PATH) + 1, Len(r[1])) IN
                       /\ \A k \in 1..Len(query) : query[k] \notin ReservedCharacters
                       /\ Len(query) = Len(url) + 2 * Cardinality({k \in 1..Len(url) : url[k] \in ReservedCharacters})
                    /\ base = <<>> => IsSameOrigin(r[1])

\* A result with a fully-qualified https address was received and its proxy
\* address is displayed.
C18_Witness ==
    /\ conversionResult # Null
    /\ IsFullyQualified(conversionResult[1].model_url)
    /\ startsWith(conversionResult[1].model_url, HTTP \o <<"s">>)
    /\ displayModelUrl # Null
    /\ startsWith(displayModelUrl[1], PROXY_PATH)

\* C19: whenever the Gallery tab's preview panel renders an asset, it is the
\* asset of the selected model, whose name and description the panel shows.
C19_GalleryPreviewIsSelectedModel ==
    GalleryPreviewShown => displayModelUrl = getProxyUrl(selectedModel[1].model_url)

\* C20: whenever a model is selected and no list() request is outstanding, the
\* selected model equals, field by field, an entry of the gallery snapshot.
C20_SelectionIsInSnapshot ==
    (selectedModel # Null /\ listReqs = <<>>)
        => \E k \in 1..Len(savedModels) : savedModels[k] = selectedModel[1]

\* C21: once clearAllViews has run, the conversion result and the error stay
\* empty until the user submits again.  Stated of the step that follows
\* clearAllViews: unless it is a submit, the result and the error are still
\* empty after it, also when it is the arrival of the response of a conversion
\* that was in flight when clearAllViews ran.
C21_ClearedUntilNextSubmit ==
    [][(lastEvent[1] = "clearAllViews" /\ lastEvent'[1] # "handleConvert")
          => conversionResult' = Null /\ error' = Null]_vars

\* C22: in every reachable state the conversion result and the error are not
\* both present, so the error box is never rendered together with the result
\* of an earlier conversion and its "Model saved" notice.
C22_ResultAndErrorExclusive ==
    /\ ~(conversionResult # Null /\ error # Null)
    /\ ~(ErrorShown /\ ModelSavedNoticeShown)
====
